---------------------------- MODULE Spec2Model ----------------------------
(***************************************************************************)
(* A model of src/train.py: Trainer._calc_loss (the weighted, length       *)
(* normalised multi-criterion loss), Trainer.train (epochs, batches, the   *)
(* window loop with its shrinking sub-batch, the scheduler step, the       *)
(* running loss) and Trainer.validate (evaluation mode and its restore).   *)
(*                                                                         *)
(* Tensors are (batch, time) matrices of small integers, the channel axis  *)
(* being folded into one channel.  Loss values are exact rationals with    *)
(* the IEEE non-finite values inf, -inf and nan, so that a division by a   *)
(* zero length is what torch computes and not an error.                    *)
(***************************************************************************)
EXTENDS Integers, Sequences, FiniteSets, TLC

VARIABLES
    (* hyper-parameters and run configuration (hp.*, train's arguments) *)
    hp, loader_train, loader_valid, first_epoch,
    (* Trainer.train *)
    pc, epoch, i_iter, T_ys, T_max, t, i_first, loss_t, avg_loss,
    seg_T_ys, windows, opt_steps, model_calls, sched, logged, err,
    (* Trainer.validate / the model's mode *)
    mode, v_iter,
    (* Trainer._calc_loss called on its own *)
    lpc, y, output, T_arg, ret

vars == <<hp, loader_train, loader_valid, first_epoch, pc, epoch, i_iter, T_ys, T_max, t, i_first, loss_t, avg_loss,
          seg_T_ys, windows, opt_steps, model_calls, sched, logged, err,
          mode, v_iter, lpc, y, output, T_arg, ret>>

trainVars == <<pc, epoch, i_iter, T_ys, T_max, t, i_first, loss_t, avg_loss,
               seg_T_ys, windows, opt_steps, model_calls, sched, logged, err,
               mode, v_iter>>

lossVars == <<lpc, y, output, T_arg, ret>>

confVars == <<hp, loader_train, loader_valid, first_epoch>>

---------------------------------------------------------------------------
(* Bounds of the model *)

\* longest target sequence of a batch of the window-loop specification
MaxT == 10
\* largest number of samples in one batch
MaxBatch == 2
\* largest hp.l_target
MaxLTarget == 5
\* largest number of tensor elements (batch * time) handed to _calc_loss alone
MaxElems == 4
\* largest number of validation batches
MaxValid == 1
\* hp.n_epochs of a whole run
MaxEpochs == 2
\* largest number of training samples of a whole run
MaxData == 3

(* Program constants *)

\* train.py line 186: a window whose time extent is below 5 ends the loop
MinWindow == 5

None == "None"

---------------------------------------------------------------------------
(* Small helpers *)

Abs(a) == IF a < 0 THEN -a ELSE a

Sign(a) == IF a > 0 THEN 1 ELSE IF a < 0 THEN -1 ELSE 0

Min(a, b) == IF a <= b THEN a ELSE b

Max(a, b) == IF a >= b THEN a ELSE b

RECURSIVE GCD(_, _)
GCD(a, b) == IF b = 0 THEN a ELSE GCD(b, a % b)

RECURSIVE SeqMax(_)
SeqMax(s) == IF Len(s) = 0 THEN 0 ELSE Max(Head(s), SeqMax(Tail(s)))

\* all sequences over S of a length in lo..hi
SeqsOf(S, lo, hi) == UNION {[1..n -> S] : n \in lo..hi}

IsAscending(s) == \A i \in 1..Len(s) - 1 : s[i] <= s[i + 1]

IsDescending(s) == \A i \in 1..Len(s) - 1 : s[i] >= s[i + 1]

---------------------------------------------------------------------------
(* Float values as exact rationals [n, d] in lowest terms with d > 0, and   *)
(* the IEEE values inf = 1/0, -inf = -1/0, nan = 0/0.                       *)

Rat(n, d) ==
    IF d = 0 THEN [n |-> Sign(n), d |-> 0]
    ELSE LET g == GCD(Abs(n), Abs(d))
         IN  [n |-> Sign(d) * (n \div g), d |-> Abs(d) \div g]

RInt(k) == [n |-> k, d |-> 1]

RZero == RInt(0)

RNaN == [n |-> 0, d |-> 0]

\* a + b
RAdd(a, b) ==
    IF a.d # 0 /\ b.d # 0 THEN Rat(a.n * b.d + b.n * a.d, a.d * b.d)
    ELSE IF a = RNaN \/ b = RNaN THEN RNaN
    ELSE IF a.d = 0 /\ b.d = 0 THEN (IF a.n = b.n THEN a ELSE RNaN)
    ELSE IF a.d = 0 THEN a ELSE b

\* a * k for an integer k
RMulInt(a, k) ==
    IF a.d # 0 THEN Rat(a.n * k, a.d)
    ELSE [n |-> Sign(a.n * k), d |-> 0]

\* a / k for an integer k: a division by zero gives inf or nan, never an error
RDivInt(a, k) ==
    IF a.d # 0 THEN Rat(a.n, a.d * k)
    ELSE IF k = 0 THEN a
    ELSE [n |-> a.n * Sign(k), d |-> 0]

\* a <= b for finite a and b
RLeq(a, b) == a.n * b.d <= b.n * a.d

\* a < b for finite a and b
RLess(a, b) == a.n * b.d < b.n * a.d

---------------------------------------------------------------------------
(* Trainer.__init__: the criteria, each built with reduction='sum' *)

criterion_names == <<"L1Loss", "MSELoss">>

\* the elementwise term of criterion `name` for output value a and target b
Elem(name, a, b) ==
    IF name = "L1Loss" THEN Abs(a - b) ELSE (a - b) * (a - b)

RECURSIVE RowSum(_, _, _, _)
\* the criterion summed over the first `upto` time steps of one sample
RowSum(name, out_row, y_row, upto) ==
    IF upto = 0 THEN 0
    ELSE RowSum(name, out_row, y_row, upto - 1)
         + Elem(name, out_row[upto], y_row[upto])

\* the time extent of a (batch, time) tensor
Extent(ten) == IF Len(ten) = 0 THEN 0 ELSE Len(ten[1])

RECURSIVE TensorSum(_, _, _, _)
\* criterion(output, y) with reduction='sum': over the first b samples, whole rows
TensorSum(name, out, tgt, b) ==
    IF b = 0 THEN 0
    ELSE TensorSum(name, out, tgt, b - 1)
         + RowSum(name, out[b], tgt[b], Len(tgt[b]))

\* the number of elements of item[..., :T] along time: Python's slice, where a
\* negative T counts from the end
SliceLen(E, T) == IF T >= 0 THEN Min(T, E) ELSE Max(E + T, 0)

\* (T_ys == T_ys[0]).all()
AllEqualFirst(Ts) == \A k \in 1..Len(Ts) : Ts[k] = Ts[1]

\* the fast path without its division by the common length
CalcLossFastNoDiv(tgt, out, Ts) ==
    [i \in 1..Len(criterion_names) |->
        IF hp.weight_loss[i] = 0 THEN RZero
        ELSE RInt(hp.weight_loss[i]
                  * TensorSum(criterion_names[i], out, tgt, Len(tgt)))]

\* the fast path, lines 133-136: one sum over the whole tensor, divided by T_ys[0]
CalcLossFast(tgt, out, Ts) ==
    [i \in 1..Len(criterion_names) |->
        IF hp.weight_loss[i] = 0 THEN RZero
        ELSE RDivInt(RInt(hp.weight_loss[i]
                          * TensorSum(criterion_names[i], out, tgt, Len(tgt))),
                     Ts[1])]

RECURSIVE RaggedAcc(_, _, _, _, _)
\* lines 142-143: zip(T_ys, y, output) stops at the shortest of the three
RaggedAcc(name, tgt, out, Ts, k) ==
    IF k = 0 THEN RZero
    ELSE RAdd(RaggedAcc(name, tgt, out, Ts, k - 1),
              RDivInt(RInt(RowSum(name, out[k], tgt[k],
                                  SliceLen(Len(tgt[k]), Ts[k]))),
                      Ts[k]))

\* the ragged path, lines 138-144
CalcLossRagged(tgt, out, Ts) ==
    [i \in 1..Len(criterion_names) |->
        IF hp.weight_loss[i] = 0 THEN RZero
        ELSE RMulInt(RaggedAcc(criterion_names[i], tgt, out, Ts,
                               Min(Len(Ts), Len(tgt))),
                     hp.weight_loss[i])]

\* the lengths the loss terms are divided by
CalcLossDivisors(tgt, Ts) ==
    IF AllEqualFirst(Ts) THEN <<Ts[1]>>
    ELSE [k \in 1..Min(Len(Ts), Len(tgt)) |-> Ts[k]]

\* a variant that refuses a length <= 0 and a length count other than the batch size
CalcLossValidating(tgt, out, Ts) ==
    IF Len(Ts) = 0 THEN [raised |-> "IndexError", loss |-> <<>>, divs |-> <<>>]
    ELSE IF Len(Ts) # Len(tgt) \/ \E k \in 1..Len(Ts) : Ts[k] <= 0
    THEN [raised |-> "ValueError", loss |-> <<>>, divs |-> <<>>]
    ELSE [raised |-> None,
          loss |-> IF AllEqualFirst(Ts) THEN CalcLossFast(tgt, out, Ts)
                   ELSE CalcLossRagged(tgt, out, Ts),
          divs |-> CalcLossDivisors(tgt, Ts)]

\* Trainer._calc_loss, lines 130-146.  T_ys[0] of an empty array is an IndexError;
\* nothing else is checked.
CalcLoss(tgt, out, Ts) ==
    IF Len(Ts) = 0 THEN [raised |-> "IndexError", loss |-> <<>>, divs |-> <<>>]
    ELSE [raised |-> None,
          loss |-> IF AllEqualFirst(Ts) THEN CalcLossFast(tgt, out, Ts)
                   ELSE CalcLossRagged(tgt, out, Ts),
          divs |-> CalcLossDivisors(tgt, Ts)]

VecAdd(a, b) == [i \in 1..Len(a) |-> RAdd(a[i], b[i])]

VecDivInt(a, k) == [i \in 1..Len(a) |-> RDivInt(a[i], k)]

ZeroVec == [i \in 1..Len(criterion_names) |-> RZero]

---------------------------------------------------------------------------
(* Configuration: hp.* and the arguments of train *)

\* hp.weight_loss: one weight per criterion, a zero weight skipping its criterion
WeightChoices == {<<1, 0>>, <<2, 1>>}

\* hp of a run that only calls _calc_loss
LossHp ==
    {[l_target |-> MinWindow, batch_size |-> 1, n_epochs |-> 0,
      weight_loss |-> w] : w \in WeightChoices}

---------------------------------------------------------------------------
(* Trainer._calc_loss on its own: every tensor pair and length vector within *)
(* the bounds.                                                               *)

Vals == {0, 1}

\* (batch, time) shapes of at most MaxElems elements
Shapes == {s \in (1..(MaxBatch)) \X (1..MaxElems) : s[1] * s[2] <= MaxElems}

Tensors(s) == [1..s[1] -> [1..s[2] -> Vals]]

\* length vectors: of any length up to one more than the batch size, the entries
\* from -1 to the time extent
LengthVectors(s) == SeqsOf((-1)..s[2], 0, s[1] + 1)

TrainIdle ==
    /\ pc = "idle" /\ epoch = 0 /\ i_iter = 0 /\ T_ys = <<>> /\ T_max = 0
    /\ t = 0 /\ i_first = 0 /\ loss_t = <<>> /\ avg_loss = ZeroVec
    /\ seg_T_ys = <<>> /\ windows = <<>> /\ opt_steps = 0 /\ model_calls = 0
    /\ sched = <<>> /\ logged = <<>> /\ err = None /\ mode = "train"
    /\ v_iter = 0

LossIdle ==
    /\ lpc = "idle" /\ y = <<>> /\ output = <<>> /\ T_arg = <<>>
    /\ ret = [raised |-> None, loss |-> <<>>, divs |-> <<>>]

InitLoss ==
    /\ hp \in LossHp
    /\ loader_train = [n_data |-> 1, lengths |-> {MinWindow},
                       drop_last |-> FALSE, pad_to |-> 0]
    /\ loader_valid = [n_batches |-> 0]
    /\ first_epoch = 0
    /\ TrainIdle
    /\ lpc = "call"
    /\ \E s \in Shapes :
          /\ y \in Tensors(s)
          /\ output \in Tensors(s)
          /\ T_arg \in LengthVectors(s)
    /\ ret = [raised |-> None, loss |-> <<>>, divs |-> <<>>]

\* loss = self._calc_loss(y, output, T_ys)
CallCalcLoss ==
    /\ lpc = "call"
    /\ ret' = CalcLoss(y, output, T_arg)
    /\ lpc' = "done"
    /\ UNCHANGED <<y, output, T_arg>>
    /\ UNCHANGED confVars
    /\ UNCHANGED trainVars

NextLoss == CallCalcLoss

SpecLoss == InitLoss /\ [][NextLoss]_vars

---------------------------------------------------------------------------
(* Trainer.train *)

\* len(loader_train.dataset)
n_train_data == loader_train.n_data

\* the batches one epoch's loader yields: ceil(n_train_data / batch_size), or
\* the floor of it for a loader that drops an incomplete last batch
NBatches ==
    IF loader_train.drop_last THEN n_train_data \div hp.batch_size
    ELSE (n_train_data + hp.batch_size - 1) \div hp.batch_size

\* the number of samples of batch `it`: batch_size, the last batch the rest
BatchLen(it) == Min(hp.batch_size, n_train_data - it * hp.batch_size)

\* y.shape[-1] of a batch: the longest target of the batch, or the fixed length
\* a loader pads every batch to
PaddedLength(b) ==
    IF loader_train.pad_to = 0 THEN SeqMax(b) ELSE loader_train.pad_to

\* the batches the loader can yield as batch `it`: the true target lengths of
\* its samples, in the order the collation left them
Batches(it) == [1..BatchLen(it) -> loader_train.lengths]

RECURSIVE AdvanceIFirstStrict(_, _, _)
\* the loop with t > T_ys[i_first] for its test
AdvanceIFirstStrict(i, tt, Ts) ==
    IF i < Len(Ts) /\ tt > Ts[i + 1] THEN AdvanceIFirstStrict(i + 1, tt, Ts)
    ELSE i

RECURSIVE AdvanceIFirst(_, _, _)
\* lines 183-184: while i_first < y.shape[0] and t >= T_ys[i_first]: i_first += 1
\* (i is the 0-based index of the code, Ts[i + 1] its T_ys[i])
AdvanceIFirst(i, tt, Ts) ==
    IF i < Len(Ts) /\ tt >= Ts[i + 1] THEN AdvanceIFirst(i + 1, tt, Ts)
    ELSE i

\* line 185: seg_y.shape[-1] for seg_y = y[i_first:, :, t: t + l_target]
WindowExtent(tt) == Min(hp.l_target, T_max - tt)

\* the test with the floor one step lower
IsDegenerateLower(extent) == extent < MinWindow - 1

\* line 186: seg_y.shape[-1] < 5
IsDegenerate(extent) == extent < MinWindow

\* the clip without the window start subtracted
ClipLengthsNoShift(Ts, i, tt) ==
    [k \in 1..(Len(Ts) - i) |-> Min(Ts[i + k], hp.l_target)]

\* lines 189-190: np.clip(T_ys[i_first:] - t, a_min=None, a_max=hp.l_target)
ClipLengths(Ts, i, tt) ==
    [k \in 1..(Len(Ts) - i) |-> Min(Ts[i + k] - tt, hp.l_target)]

\* a (b, e) tensor filled with v
Filled(b, e, v) == [i \in 1..b |-> [j \in 1..e |-> v]]

\* the position one batch further
SchedPositionNext(ep, it) ==
    Rat(ep * n_train_data + (it + 1) * hp.batch_size, n_train_data)

\* line 206: epoch + i_iter * hp.batch_size / n_train_data
SchedPosition(ep, it) ==
    Rat(ep * n_train_data + it * hp.batch_size, n_train_data)

\* lines 151-160: the scheduler, the running loss and the writer are made once
TrainBegin ==
    /\ pc = "start"
    /\ avg_loss' = ZeroVec
    /\ epoch' = first_epoch
    /\ pc' = "epoch"
    /\ UNCHANGED <<i_iter, T_ys, T_max, t, i_first, loss_t, seg_T_ys, windows,
                   opt_steps, model_calls, sched, logged, err, mode, v_iter>>
    /\ UNCHANGED confVars /\ UNCHANGED lossVars

\* line 169: for epoch in range(first_epoch, hp.n_epochs); line 231 after it
EpochHead ==
    /\ pc = "epoch"
    /\ IF epoch < hp.n_epochs
       THEN /\ pc' = "batch"
            /\ i_iter' = 0
       ELSE /\ pc' = "done"
            /\ UNCHANGED i_iter
    /\ UNCHANGED <<epoch, T_ys, T_max, t, i_first, loss_t, avg_loss, seg_T_ys,
                   windows, opt_steps, model_calls, sched, logged, err, mode,
                   v_iter>>
    /\ UNCHANGED confVars /\ UNCHANGED lossVars

\* lines 174-180: the next batch of the epoch, i_first = 0, loss_t = None
NextBatch ==
    /\ pc = "batch"
    /\ i_iter < NBatches
    /\ \E b \in Batches(i_iter) :
          /\ T_ys' = b
          /\ T_max' = PaddedLength(b)
    /\ i_first' = 0
    /\ loss_t' = <<>>
    /\ t' = 0
    /\ seg_T_ys' = <<>>
    /\ windows' = <<>>
    /\ opt_steps' = 0
    /\ model_calls' = 0
    /\ pc' = "window"
    /\ UNCHANGED <<epoch, i_iter, avg_loss, sched, logged, err, mode, v_iter>>
    /\ UNCHANGED confVars /\ UNCHANGED lossVars

\* line 174: the loader is exhausted
BatchesDone ==
    /\ pc = "batch"
    /\ i_iter >= NBatches
    /\ pc' = "epoch_end"
    /\ UNCHANGED <<epoch, i_iter, T_ys, T_max, t, i_first, loss_t, avg_loss,
                   seg_T_ys, windows, opt_steps, model_calls, sched, logged,
                   err, mode, v_iter>>
    /\ UNCHANGED confVars /\ UNCHANGED lossVars

\* lines 181-184: the next window start, zero_grad, the i_first loop
WindowHead ==
    /\ pc = "window"
    /\ t < T_max
    /\ i_first' = AdvanceIFirst(i_first, t, T_ys)
    /\ pc' = "sliced"
    /\ UNCHANGED <<epoch, i_iter, T_ys, T_max, t, loss_t, avg_loss, seg_T_ys,
                   windows, opt_steps, model_calls, sched, logged, err, mode,
                   v_iter>>
    /\ UNCHANGED confVars /\ UNCHANGED lossVars

\* line 181: range(0, y.shape[-1], hp.l_target) is exhausted
WindowsDone ==
    /\ pc = "window"
    /\ t >= T_max
    /\ pc' = "post_batch"
    /\ UNCHANGED <<epoch, i_iter, T_ys, T_max, t, i_first, loss_t, avg_loss,
                   seg_T_ys, windows, opt_steps, model_calls, sched, logged,
                   err, mode, v_iter>>
    /\ UNCHANGED confVars /\ UNCHANGED lossVars

\* lines 185-187: the window is below the floor: break
WindowBreak ==
    /\ pc = "sliced"
    /\ IsDegenerate(WindowExtent(t))
    /\ pc' = "post_batch"
    /\ UNCHANGED <<epoch, i_iter, T_ys, T_max, t, i_first, loss_t, avg_loss,
                   seg_T_ys, windows, opt_steps, model_calls, sched, logged,
                   err, mode, v_iter>>
    /\ UNCHANGED confVars /\ UNCHANGED lossVars

\* lines 188-204: the clipped lengths, the model call, the loss, the optimizer
\* step and the running loss.  The model is a black box: its output misses the
\* target by v per element, or the call raises.
WindowTrain ==
    /\ pc = "sliced"
    /\ ~IsDegenerate(WindowExtent(t))
    /\ LET seg == ClipLengths(T_ys, i_first, t)
           n == Len(T_ys) - i_first
           e == WindowExtent(t)
       IN  /\ seg_T_ys' = seg
           /\ model_calls' = model_calls + 1
           /\ \/ /\ err' = "ModelError"
                 /\ pc' = "error"
                 /\ UNCHANGED <<loss_t, avg_loss, windows, opt_steps, t>>
              \/ \E v \in Vals :
                    LET r == CalcLoss(Filled(n, e, 0), Filled(n, e, v), seg)
                    IN  IF r.raised # None
                        THEN /\ err' = r.raised
                             /\ pc' = "error"
                             /\ UNCHANGED <<loss_t, avg_loss, windows,
                                            opt_steps, t>>
                        ELSE /\ loss_t' = r.loss
                             /\ opt_steps' = opt_steps + 1
                             /\ avg_loss' = VecAdd(avg_loss, r.loss)
                             /\ windows' = Append(windows,
                                   [t |-> t, i_first |-> i_first,
                                    seg_T_ys |-> seg, extent |-> e,
                                    divs |-> r.divs])
                             /\ t' = t + hp.l_target
                             /\ pc' = "window"
                             /\ UNCHANGED err
    /\ UNCHANGED <<epoch, i_iter, T_ys, T_max, i_first, sched, logged, mode,
                   v_iter>>
    /\ UNCHANGED confVars /\ UNCHANGED lossVars

\* lines 206-209: the scheduler step, then the progress report of loss_t, which
\* is still None when no window of the batch was trained on
PostBatch ==
    /\ pc = "post_batch"
    /\ sched' = Append(sched, SchedPosition(epoch, i_iter))
    /\ IF loss_t = <<>>
       THEN /\ err' = "AttributeError"
            /\ pc' = "error"
            /\ UNCHANGED i_iter
       ELSE /\ i_iter' = i_iter + 1
            /\ pc' = "batch"
            /\ UNCHANGED err
    /\ UNCHANGED <<epoch, T_ys, T_max, t, i_first, loss_t, avg_loss, seg_T_ys,
                   windows, opt_steps, model_calls, logged, mode, v_iter>>
    /\ UNCHANGED confVars /\ UNCHANGED lossVars

\* lines 211-216: avg_loss /= n_train_data, and the epoch's loss is logged
EpochEnd ==
    /\ pc = "epoch_end"
    /\ avg_loss' = VecDivInt(avg_loss, n_train_data)
    /\ logged' = Append(logged, [epoch |-> epoch,
                                 loss |-> VecDivInt(avg_loss, n_train_data)])
    /\ pc' = "validate"
    /\ UNCHANGED <<epoch, i_iter, T_ys, T_max, t, i_first, loss_t, seg_T_ys,
                   windows, opt_steps, model_calls, sched, err, mode, v_iter>>
    /\ UNCHANGED confVars /\ UNCHANGED lossVars

---------------------------------------------------------------------------
(* Trainer.validate *)

\* lines 242-246: self.model.eval()
ValidateBegin ==
    /\ pc = "validate"
    /\ mode' = "eval"
    /\ v_iter' = 0
    /\ pc' = "v_loop"
    /\ UNCHANGED <<epoch, i_iter, T_ys, T_max, t, i_first, loss_t, avg_loss,
                   seg_T_ys, windows, opt_steps, model_calls, sched, logged,
                   err>>
    /\ UNCHANGED confVars /\ UNCHANGED lossVars

\* lines 247-271: one validation batch; the model call, the loss and the writer
\* are calls that may raise, and nothing in validate catches
ValidateBatch ==
    /\ pc = "v_loop"
    /\ v_iter < loader_valid.n_batches
    /\ \/ /\ v_iter' = v_iter + 1
          /\ UNCHANGED <<pc, err>>
       \/ /\ \E e \in {"ModelError", "LossError", "WriterError"} : err' = e
          /\ pc' = "error"
          /\ UNCHANGED v_iter
    /\ UNCHANGED <<epoch, i_iter, T_ys, T_max, t, i_first, loss_t, avg_loss,
                   seg_T_ys, windows, opt_steps, model_calls, sched, logged,
                   mode>>
    /\ UNCHANGED confVars /\ UNCHANGED lossVars

\* lines 273-282: the loss is logged, self.model.train(), return
ValidateEnd ==
    /\ pc = "v_loop"
    /\ v_iter >= loader_valid.n_batches
    /\ mode' = "train"
    /\ pc' = "save"
    /\ UNCHANGED <<epoch, i_iter, T_ys, T_max, t, i_first, loss_t, avg_loss,
                   seg_T_ys, windows, opt_steps, model_calls, sched, logged,
                   err, v_iter>>
    /\ UNCHANGED confVars /\ UNCHANGED lossVars

\* lines 221-230 and the loop's next epoch
EpochTail ==
    /\ pc = "save"
    /\ epoch' = epoch + 1
    /\ pc' = "epoch"
    /\ UNCHANGED <<i_iter, T_ys, T_max, t, i_first, loss_t, avg_loss, seg_T_ys,
                   windows, opt_steps, model_calls, sched, logged, err, mode,
                   v_iter>>
    /\ UNCHANGED confVars /\ UNCHANGED lossVars

Next ==
    \/ TrainBegin
    \/ EpochHead
    \/ NextBatch
    \/ BatchesDone
    \/ WindowHead
    \/ WindowsDone
    \/ WindowBreak
    \/ WindowTrain
    \/ PostBatch
    \/ EpochEnd
    \/ ValidateBegin
    \/ ValidateBatch
    \/ ValidateEnd
    \/ EpochTail

---------------------------------------------------------------------------
(* The states train is called in *)

TrainStart ==
    /\ pc = "start" /\ epoch = 0 /\ i_iter = 0 /\ T_ys = <<>> /\ T_max = 0
    /\ t = 0 /\ i_first = 0 /\ loss_t = <<>> /\ avg_loss = ZeroVec
    /\ seg_T_ys = <<>> /\ windows = <<>> /\ opt_steps = 0 /\ model_calls = 0
    /\ sched = <<>> /\ logged = <<>> /\ err = None /\ mode = "train"
    /\ v_iter = 0

\* a whole run, fresh or resumed: the last two epochs of MaxEpochs, of several
\* batches each, over a dataset whose samples are either below the window floor
\* or MaxT long
Init ==
    /\ hp \in [l_target : (MinWindow - 1)..MaxLTarget,
               batch_size : 1..MaxBatch,
               n_epochs : {MaxEpochs},
               weight_loss : {<<2, 1>>}]
    /\ loader_train \in [n_data : 1..MaxData,
                         lengths : {{MinWindow - 1, MaxT}},
                         drop_last : BOOLEAN,
                         pad_to : {0}]
    /\ loader_valid \in [n_batches : 0..MaxValid]
    /\ first_epoch \in (MaxEpochs - 2)..(MaxEpochs - 1)
    /\ TrainStart
    /\ LossIdle

Spec == Init /\ [][Next]_vars

\* one epoch of one batch, the batch being any vector of lengths up to MaxT,
\* padded to its longest sample or to MaxT
InitWindows ==
    /\ hp \in [l_target : (MinWindow - 1)..MaxLTarget,
               batch_size : {MaxBatch},
               n_epochs : {1},
               weight_loss : WeightChoices]
    /\ loader_train \in [n_data : 1..MaxBatch,
                         lengths : {1..MaxT},
                         drop_last : {FALSE},
                         pad_to : {0, MaxT}]
    /\ loader_valid = [n_batches |-> 1]
    /\ first_epoch = 0
    /\ TrainStart
    /\ LossIdle

SpecWindows == InitWindows /\ [][Next]_vars

---------------------------------------------------------------------------
(* The window loop: the shrinking sub-batch *)

WindowPcs == {"window", "sliced", "post_batch"}

\* the split of the batch at i_first, for window start t
ShrinkSplit ==
    \A i \in 0..(Len(T_ys) - 1) :
        /\ i < i_first => T_ys[i + 1] <= t
        /\ i >= i_first => T_ys[i + 1] > t

\* i_first is 0 when a batch starts and never decreases within the batch
IFirstMonotone ==
    /\ (pc = "batch" /\ pc' = "window") => i_first' = 0
    /\ (pc \in WindowPcs /\ pc' \in WindowPcs) => i_first' >= i_first

\* C1 as stated: for a batch whose T_ys is sorted descending, after the i_first
\* loop of every window, every sample before i_first has T_ys <= t and every
\* sample from i_first on has T_ys > t
C1_Original ==
    (pc = "sliced" /\ IsDescending(T_ys)) => ShrinkSplit

\* C1, amended: the same for a batch whose T_ys is sorted ascending; and i_first
\* is 0 at the start of a batch and never decreases within it
C1_ShrinkInvariant ==
    /\ [](pc = "sliced" /\ IsAscending(T_ys) => ShrinkSplit)
    /\ [][IFirstMonotone]_vars

\* an ascending batch of two lengths whose first sample has been dropped
C1_Witness ==
    /\ pc = "sliced"
    /\ IsAscending(T_ys)
    /\ Len(T_ys) = 2
    /\ i_first = 1
    /\ T_ys[1] < T_ys[2]

---------------------------------------------------------------------------
(* The window loop: the floor of 5 time steps *)

NoTraining ==
    /\ model_calls' = model_calls
    /\ opt_steps' = opt_steps
    /\ windows' = windows

\* C2 as stated: a window in which an active sample's clipped length
\* min(T_ys[i] - t, l_target) is below 5 ends the loop with no model call and
\* no optimizer step
C2_Original ==
    [][(/\ pc = "sliced"
        /\ \E k \in 1..(Len(T_ys) - i_first) :
              Min(T_ys[i_first + k] - t, hp.l_target) < MinWindow)
       => (pc' = "post_batch" /\ NoTraining)]_vars

\* C2, amended: a window whose time extent min(l_target, T_max - t) is below 5
\* ends the loop with no model call and no optimizer step, and none follows in
\* the batch
C2_FloorEndsLoop ==
    [][/\ (pc = "sliced" /\ Min(hp.l_target, T_max - t) < MinWindow)
          => (pc' = "post_batch" /\ NoTraining)
       /\ pc = "post_batch" => (pc' \in {"batch", "error"} /\ NoTraining)]_vars

\* the loop was ended by a window below the floor after a trained window
C2_Witness ==
    /\ pc = "post_batch"
    /\ Len(windows) >= 1
    /\ t < T_max
    /\ T_max - t < MinWindow

ExampleBatch == T_ys = <<10, 4>> /\ T_max = 10 /\ hp.l_target = 4

\* C3 as stated: T_ys = [10, 4] with l_target = 4 is trained on three windows,
\* t = 0 with lengths [4, 4], t = 4 with i_first = 1 and length 4, t = 8 with
\* i_first = 1 and length 2
C3_Original ==
    (ExampleBatch /\ pc = "post_batch") =>
        /\ Len(windows) = 3
        /\ windows[1].t = 0 /\ windows[1].i_first = 0
        /\ windows[1].seg_T_ys = <<4, 4>>
        /\ windows[2].t = 4 /\ windows[2].i_first = 1
        /\ windows[2].seg_T_ys = <<4>>
        /\ windows[3].t = 8 /\ windows[3].i_first = 1
        /\ windows[3].seg_T_ys = <<2>>

\* C3, amended: T_ys = [10, 4] with l_target = 4 is trained on no window: the
\* window at t = 0 has 4 time steps, below the floor, and ends the loop with
\* i_first = 0, no model call and no optimizer step
C3_NoWindow ==
    (ExampleBatch /\ pc \in {"sliced", "post_batch", "error"}) =>
        /\ windows = <<>>
        /\ model_calls = 0
        /\ opt_steps = 0
        /\ t = 0
        /\ i_first = 0
        /\ pc # "sliced" => loss_t = <<>>

C3_Witness == ExampleBatch /\ pc = "post_batch"

---------------------------------------------------------------------------
(* The window loop: the lengths the loss is normalised by *)

\* the length sample k of window w had its loss divided by
DivisorOf(w, k) == IF Len(w.divs) = 1 THEN w.divs[1] ELSE w.divs[k]

ValidLengths ==
    \A j \in 1..Len(windows) :
        LET w == windows[j]
        IN  /\ Len(w.seg_T_ys) = Len(T_ys) - w.i_first
            /\ \A k \in 1..Len(w.seg_T_ys) :
                  /\ w.seg_T_ys[k] = Min(T_ys[w.i_first + k] - w.t, hp.l_target)
                  /\ w.seg_T_ys[k] >= 1
                  /\ w.seg_T_ys[k] <= w.extent
                  /\ DivisorOf(w, k) = w.seg_T_ys[k]

\* C8 as stated: for T_ys sorted descending, every window a loss is computed on
\* has for each active sample the length min(T_ys[i] - t, l_target), at least 1
\* and at most the window's extent, and that is what its loss is divided by
C8_Original == IsDescending(T_ys) => ValidLengths

\* C8, amended: the same for T_ys sorted ascending; and the batch's T_ys is not
\* changed by the window loop
C8_ValidLengths ==
    /\ [](IsAscending(T_ys) => ValidLengths)
    /\ [][(pc \in WindowPcs /\ pc' \in WindowPcs) => (T_ys' = T_ys)]_vars

\* a ragged window of an ascending batch: two active samples of different
\* clipped lengths in a window that does not start at 0
C8_Witness ==
    /\ IsAscending(T_ys)
    /\ \E j \in 1..Len(windows) :
          /\ windows[j].t > 0
          /\ Len(windows[j].seg_T_ys) = 2
          /\ windows[j].seg_T_ys[1] < windows[j].seg_T_ys[2]

---------------------------------------------------------------------------
(* The window loop: a batch whose first window is below the floor *)

\* C5: a batch whose first window is below the floor goes on to the next batch
\* and raises nothing
C5_Original ==
    [][(pc = "post_batch" /\ windows = <<>>)
       => (pc' = "batch" /\ err' = None)]_vars

---------------------------------------------------------------------------
(* The running loss of an epoch *)

\* C4: when an epoch's batch loop begins, avg_loss is the zero vector
C4_Original ==
    (pc = "batch" /\ i_iter = 0) => avg_loss = ZeroVec

---------------------------------------------------------------------------
(* validate and the model's mode *)

\* C9: the model is in evaluation mode throughout validate and in training mode
\* whenever control is outside validate, an exception raised in validate included
C9_Original ==
    /\ pc = "v_loop" => mode = "eval"
    /\ pc # "v_loop" => mode = "train"

---------------------------------------------------------------------------
(* The scheduler *)

\* the scheduler steps of the epochs before `epoch`
StepsBefore == (epoch - first_epoch) * NBatches

\* the scheduler steps made so far
StepsDone ==
    IF pc = "start" THEN 0
    ELSE IF pc \in {"epoch", "done"} THEN StepsBefore
    ELSE StepsBefore + i_iter
         + (IF pc = "error" /\ err = "AttributeError" THEN 1 ELSE 0)

\* the epoch and the batch index of the k-th scheduler step of the run
EpochOfStep(k) == first_epoch + (k - 1) \div NBatches

IterOfStep(k) == (k - 1) % NBatches

SchedInvariant ==
    /\ Len(sched) = StepsDone
    /\ \A k \in 1..Len(sched) :
          /\ sched[k] = Rat(EpochOfStep(k) * n_train_data
                            + IterOfStep(k) * hp.batch_size, n_train_data)
          /\ RLeq(RInt(EpochOfStep(k)), sched[k])
          /\ RLess(sched[k], RInt(EpochOfStep(k) + 1))
          /\ k > 1 => RLeq(sched[k - 1], sched[k])

SchedOrder ==
    /\ opt_steps' = opt_steps + 1
          => (sched' = sched /\ Len(sched) = StepsBefore + i_iter)
    /\ sched' # sched
          => (pc = "post_batch" /\ Len(sched') = Len(sched) + 1)

\* C10: the scheduler is stepped once per training batch, after the batch's
\* optimizer steps, with epoch + i_iter * batch_size / n_train_data; the
\* positions never decrease over the run and those of epoch e are in [e, e + 1)
C10_Schedule == []SchedInvariant /\ [][SchedOrder]_vars

\* a run in its second epoch, of several batches per epoch
C10_Witness ==
    /\ epoch > first_epoch
    /\ NBatches >= 2
    /\ Len(sched) > NBatches
    /\ pc = "batch"
    /\ sched[Len(sched)].d # 1

---------------------------------------------------------------------------
(* _calc_loss: the two paths *)

UniformCase ==
    /\ lpc = "done"
    /\ Len(T_arg) = Len(y)
    /\ AllEqualFirst(T_arg)
    /\ T_arg[1] >= 1
    /\ T_arg[1] <= Extent(y)

\* C6 as stated: for uniform T_ys the fast path's result is the ragged path's,
\* whatever the time extent of y and output from T on
C6_Original ==
    UniformCase => ret.loss = CalcLossRagged(y, output, T_arg)

\* C6, amended: for uniform T_ys equal to the time extent of y and output, the
\* fast path's result is the ragged path's
C6_PathsAgree ==
    (UniformCase /\ T_arg[1] = Extent(y))
        => ret.loss = CalcLossRagged(y, output, T_arg)

\* two samples of two time steps, both criteria weighted, a loss that is not 0
C6_Witness ==
    /\ UniformCase
    /\ Len(y) = 2
    /\ T_arg[1] = 2
    /\ Extent(y) = 2
    /\ hp.weight_loss[2] # 0
    /\ ret.loss[1] # RZero

---------------------------------------------------------------------------
(* _calc_loss: the lengths it accepts *)

BadLengths ==
    \/ Len(T_arg) # Len(y)
    \/ \E k \in 1..Len(T_arg) : T_arg[k] <= 0

\* C7 as stated: _calc_loss raises when len(T_ys) is not the batch size and
\* when an entry of T_ys is <= 0
C7_Original ==
    (lpc = "done" /\ BadLengths) => ret.raised # None

\* C7, amended: _calc_loss checks nothing: it raises only for an empty T_ys, and
\* returns a LossVector of one entry per criterion for every other T_ys
C7_NoValidation ==
    lpc = "done" =>
        /\ ret.raised # None <=> Len(T_arg) = 0
        /\ ret.raised = None => Len(ret.loss) = Len(criterion_names)

\* the ragged path returns for a length vector that is too short and has a
\* zero; the fast path returns for one that is too long and below zero
C7_Witness ==
    /\ lpc = "done"
    /\ ret.raised = None
    /\ Len(T_arg) # Len(y)
    /\ \E k \in 1..Len(T_arg) : T_arg[k] <= 0
    /\ ~AllEqualFirst(T_arg)

============================================================================
